---- MODULE Spec2Model ----
(***************************************************************************)
(* Model of the pin acquisition/logging service:                           *)
(*   serial_reader.py  parse_line, PinStates, ArduinoPinMonitor            *)
(*   json_logger.py    PinSampleJSONLogger                                 *)
(*   services.py       PinLoggingService (start / stop / get_status/_run)  *)
(*                                                                         *)
(* Python's Optional[T] is modelled as a sequence of length 0 (None) or 1. *)
(* A text line is the sequence of its comma-separated tokens; a token is a *)
(* sequence of one-character strings.  The empty sequence of tokens stands *)
(* for "no bytes received" (readline() timed out).                         *)
(***************************************************************************)
EXTENDS Integers, Sequences, FiniteSets, TLC

\* ------------------------------------------------------------------ bounds
MaxThreads == 2      \* Thread objects ever created by start()
MaxReads == 2        \* read attempts the device answers before it falls silent
MaxConcReads == 1    \* the same, with two caller threads (SpecConc)
MaxLogOps == 5       \* calls made on the stand-alone logger (SpecLog)
MaxFlushEvery == 2   \* largest flush_every configuration explored
MaxTokens == 4       \* tokens in a line handed to the codec (SpecCodec)

\* ---------------------------------------------------------------- Optional
None == <<>>
Some(v) == <<v>>
\* Python truthiness of an Optional[float]: None and 0.0 are both falsy.
TruthyNum(o) == o # None /\ o[1] # 0

\* ------------------------------------------------------- serial_reader.py
IsSpace(ch) == ch = " "

RECURSIVE LStrip(_)
LStrip(tok) ==
  IF tok # <<>> /\ IsSpace(Head(tok)) THEN LStrip(Tail(tok)) ELSE tok

RECURSIVE RStrip(_)
RStrip(tok) ==
  IF tok # <<>> /\ IsSpace(tok[Len(tok)])
  THEN RStrip(SubSeq(tok, 1, Len(tok) - 1)) ELSE tok

\* str.strip()
Strip(tok) == RStrip(LStrip(tok))

Digits == {"0", "1", "2", "3", "4", "5", "6", "7", "8", "9"}

DigitVal(ch) ==
  CASE ch = "0" -> 0 [] ch = "1" -> 1 [] ch = "2" -> 2 [] ch = "3" -> 3
    [] ch = "4" -> 4 [] ch = "5" -> 5 [] ch = "6" -> 6 [] ch = "7" -> 7
    [] ch = "8" -> 8 [] ch = "9" -> 9

\* int(tok) succeeds: optional sign followed by at least one digit.
IsInt(tok) ==
  LET body == IF tok # <<>> /\ Head(tok) \in {"-", "+"} THEN Tail(tok) ELSE tok
  IN body # <<>> /\ \A i \in 1..Len(body) : body[i] \in Digits

RECURSIVE DigitsVal(_, _)
DigitsVal(ds, acc) ==
  IF ds = <<>> THEN acc ELSE DigitsVal(Tail(ds), 10 * acc + DigitVal(Head(ds)))

\* int(tok), defined when IsInt(tok)
ToInt(tok) ==
  IF Head(tok) = "-" THEN 0 - DigitsVal(Tail(tok), 0)
  ELSE IF Head(tok) = "+" THEN DigitsVal(Tail(tok), 0)
  ELSE DigitsVal(tok, 0)

\* result of a failed decode (ValueError raised by parse_line)
Malformed == [ok |-> FALSE, map |-> <<>>]

\* mutant: a pin already in the dict keeps its first value
DictPutKeepsFirst(out, pin, val) ==
  [q \in (DOMAIN out) \cup {pin} |-> IF q \in DOMAIN out THEN out[q] ELSE val]

\* out[pin] = val on a dict
DictPut(out, pin, val) ==
  [q \in (DOMAIN out) \cup {pin} |-> IF q = pin THEN val ELSE out[q]]

RECURSIVE ParsePairs(_, _, _)
ParsePairs(parts, i, out) ==
  IF i > Len(parts) THEN [ok |-> TRUE, map |-> out]
  ELSE IF ~IsInt(parts[i]) \/ ~IsInt(parts[i + 1]) THEN Malformed
  ELSE ParsePairs(parts, i + 2, DictPut(out, ToInt(parts[i]), ToInt(parts[i + 1])))

\* parse_line(line): the tokens of the line are already split on ","
parse_line(line) ==
  LET stripped == [i \in 1..Len(line) |-> Strip(line[i])]
      parts == SelectSeq(stripped, LAMBDA p : p # <<>>)
  IN IF Len(parts) % 2 # 0 THEN Malformed ELSE ParsePairs(parts, 1, <<>>)

\* PinStates.get(pin)
PinGet(m, pin) == IF pin \in DOMAIN m THEN Some(m[pin]) ELSE None

\* raw.decode().strip() is empty: the line holds no comma and only blanks
LineIsBlank(raw) == Len(raw) = 1 /\ Strip(raw[1]) = <<>>

\* ArduinoPinMonitor.read_states() on an open port that delivered raw:
\* None (no data) or Some(mapping)
DecodeRaw(raw) ==
  IF raw = <<>> THEN None
  ELSE IF LineIsBlank(raw) THEN None
  ELSE LET r == parse_line(raw) IN IF r.ok THEN Some(r.map) ELSE None

\* lines the device (or line noise) may deliver in the service model
LineTimeout == <<>>
LineBlank == << <<" ">> >>
Line41 == << <<"4">>, <<"1">> >>
Line4051 == << <<"4">>, <<" ", "0">>, <<"5">>, <<"1", " ">> >>
LineOdd == << <<"4">>, <<"1">>, <<"5">> >>
LineNonInt == << <<"x">>, <<"1">> >>
DeviceLines == {LineTimeout, LineBlank, Line41, Line4051, LineOdd, LineNonInt}

\* --------------------------------------------------------- json_logger.py
\* A PinSampleJSONLogger together with the text file object it holds:
\*   fh                 self._fh is set
\*   count_since_flush  self._count_since_flush
\*   recs               records appended through this logger (file content)
\*   unflushed          records written since the file object was last forced
\*   forcedGap          value of unflushed at the latest flush forced by
\*                      write_sample (0: none yet)
\*   flushRaised        some flush() raised
LoggerNew ==
  [fh |-> FALSE, count_since_flush |-> 0, recs |-> <<>>, unflushed |-> 0,
   forcedGap |-> 0, flushRaised |-> FALSE]

IoOpen == {"ok", "raise"}
IoClose == {"ok", "flush_raises"}
IoWrite == {"ok", "write_raises", "flush_raises"}

\* the record serialised by write_sample
MakeRecord(m, ts) ==
  [ts_utc |-> ts, d4 |-> PinGet(m, 4), d5 |-> PinGet(m, 5),
   d6 |-> PinGet(m, 6), d7 |-> PinGet(m, 7)]

\* PinSampleJSONLogger.open()
LoggerOpen(lg, io) ==
  IF lg.fh THEN [lg |-> lg, raised |-> FALSE]
  ELSE IF io = "raise" THEN [lg |-> lg, raised |-> TRUE]
  ELSE [lg |-> [lg EXCEPT !.fh = TRUE, !.unflushed = 0], raised |-> FALSE]

\* PinSampleJSONLogger.close(): flush, close, and in any case drop the handle
LoggerClose(lg, io) ==
  IF ~lg.fh THEN [lg |-> lg, raised |-> FALSE]
  ELSE [lg |-> [lg EXCEPT !.fh = FALSE, !.unflushed = 0,
                          !.flushRaised = @ \/ (io = "flush_raises")],
        raised |-> (io = "flush_raises")]

\* mutant: the new record is put in front of the earlier ones
LoggerWritePrepends(lg, flush_every, rec, io) ==
  IF ~lg.fh THEN [lg |-> lg, raised |-> TRUE]
  ELSE IF io = "write_raises" THEN [lg |-> lg, raised |-> TRUE]
  ELSE
    LET w1 == [lg EXCEPT !.recs = <<rec>> \o @,
                         !.unflushed = @ + 1,
                         !.count_since_flush = @ + 1]
    IN IF flush_every > 0 /\ w1.count_since_flush >= flush_every
       THEN IF io = "flush_raises"
            THEN [lg |-> [w1 EXCEPT !.flushRaised = TRUE], raised |-> TRUE]
            ELSE [lg |-> [w1 EXCEPT !.count_since_flush = 0,
                                    !.forcedGap = w1.unflushed,
                                    !.unflushed = 0],
                  raised |-> FALSE]
       ELSE [lg |-> w1, raised |-> FALSE]

\* PinSampleJSONLogger.write_sample(states)
LoggerWrite(lg, flush_every, rec, io) ==
  IF ~lg.fh THEN [lg |-> lg, raised |-> TRUE]
  ELSE IF io = "write_raises" THEN [lg |-> lg, raised |-> TRUE]
  ELSE
    LET w1 == [lg EXCEPT !.recs = Append(@, rec),
                         !.unflushed = @ + 1,
                         !.count_since_flush = @ + 1]
    IN IF flush_every > 0 /\ w1.count_since_flush >= flush_every
       THEN IF io = "flush_raises"
            THEN [lg |-> [w1 EXCEPT !.flushRaised = TRUE], raised |-> TRUE]
            ELSE [lg |-> [w1 EXCEPT !.count_since_flush = 0,
                                    !.forcedGap = w1.unflushed,
                                    !.unflushed = 0],
                  raised |-> FALSE]
       ELSE [lg |-> w1, raised |-> FALSE]

\* ------------------------------------------------------------ services.py
CallerIds == {1, 2}
Threads == 1..MaxThreads

FatalError == "fatal: "
JsonWriteError == "JSON write error: "

VARIABLES
  cfg,              \* PinLoggingServiceConfig: flush_every, poll_sleep_s
  callers,          \* caller threads that exist in this specification
  cpc,              \* position of each caller thread
  stop,             \* self._stop (threading.Event)
  thread,           \* self._thread: 0 (None) or a Thread object
  nthreads,         \* Thread objects created so far
  lock,             \* self._lock: 0 free, w > 0 worker w, -c caller c
  running, started_at, last_sample_at, last_states,
  samples_written, bad_reads, last_error,
  pc,               \* position of each worker thread in _run
  states,           \* _run's local variable states
  lg,               \* _run's local logger
  ser,              \* mon._ser of the worker's ArduinoPinMonitor is set
  clock,            \* time.time()
  device,           \* read attempts the device will still answer before it falls silent
  wh,               \* per-worker history of what the worker has done
  tot,              \* history: reads that returned and appends that raised, all workers
  stopped,          \* history: stop() has returned and start() not called since
  early,            \* history: stop() returned before the first start(), and
                    \* no stop() and no second Thread since
  slg, sops,        \* a stand-alone logger and the calls made on the stand-alone objects
  sser,             \* a stand-alone ArduinoPinMonitor: its _ser is set
  sret,             \* history: the latest call on a stand-alone object and its outcome
  cline,            \* a text line handed to the codec
  cres              \* what parse_line, read_states and write_sample made of cline

statusVars == <<running, started_at, last_sample_at, last_states,
                samples_written, bad_reads, last_error>>
controlVars == <<stop, thread, nthreads>>
callerVars == <<cpc, stopped, early>>
workerVars == <<pc, states, lg, ser, wh>>
loneVars == <<slg, sops, sser, sret>>
codecVars == <<cline, cres>>
aloneVars == <<slg, sops, sser, sret, cline, cres>>
envVars == <<clock, device, tot>>
vars == <<cfg, callers, cpc, stop, thread, nthreads, lock, running,
          started_at, last_sample_at, last_states, samples_written,
          bad_reads, last_error, pc, states, lg, ser, clock, device, wh,
          tot, stopped, early, slg, sops, sser, sret, cline, cres>>

\* no call made yet on a stand-alone object
NoCall == [op |-> "none", wasOpen |-> FALSE, raised |-> FALSE, appended |-> 0,
           same |-> TRUE]

\* nothing done yet with the line: parse_line's result, read_states()'s
\* result and the record write_sample serialises, each absent
NoResult == [parsed |-> None, read |-> None, rec |-> None]

NoIter ==
  [outcome |-> "none", raw |-> <<>>, bad_reads |-> 0, samples_written |-> 0,
   last_error |-> None, last_states |-> None, loglen |-> 0]

NewHistory ==
  [decoded |-> <<>>,     \* samples read_states() returned, in order
   logIdx |-> <<>>,      \* for each record in lg.recs, its index in decoded
   reads |-> 0,          \* read_states() calls that returned
   attempts |-> 0,       \* write_sample() calls
   fails |-> 0,          \* write_sample() calls that raised
   lastWrite |-> "none", \* what write_sample() did for the latest read
   cause |-> "none",     \* why the loop was left (kept until the next Thread)
   sw0 |-> 0,            \* samples_written when the run began
   iter |-> NoIter]      \* status fields at the latest read

Alive(w) == pc[w] \notin {"unstarted", "done"}

\* PinLoggingService.is_running()
is_running == thread # 0 /\ Alive(thread)

PollSleeps == cfg.poll_sleep_s > 0
AfterIteration == IF PollSleeps THEN "sleep" ELSE "loop"

InitService ==
  /\ cpc = [c \in CallerIds |-> "idle"]
  /\ stop = FALSE
  /\ thread = 0
  /\ nthreads = 0
  /\ lock = 0
  /\ running = FALSE
  /\ started_at = None
  /\ last_sample_at = None
  /\ last_states = None
  /\ samples_written = 0
  /\ bad_reads = 0
  /\ last_error = None
  /\ pc = [w \in Threads |-> "unstarted"]
  /\ states = [w \in Threads |-> None]
  /\ lg = [w \in Threads |-> LoggerNew]
  /\ ser = [w \in Threads |-> FALSE]
  /\ clock = 1
  /\ tot = [reads |-> 0, fails |-> 0]
  /\ wh = [w \in Threads |-> NewHistory]
  /\ stopped = FALSE
  /\ early = FALSE
  /\ slg = LoggerNew
  /\ sops = 0
  /\ sser = FALSE
  /\ sret = NoCall

\* main.py's configuration, and one that batches flushes and sleeps between
\* iterations
Configs ==
  {[flush_every |-> 1, poll_sleep_s |-> 0],
   [flush_every |-> 2, poll_sleep_s |-> 1]}

\* ------------------------------------------------- caller threads: start()
\* callers that passed the liveness test of start() and will create a Thread
Starting == {c \in callers : cpc[c] \in {"start_clear", "start_new"}}

\* line 44: if self._thread and self._thread.is_alive(): return
StartCheck(c) ==
  /\ cpc[c] = "idle"
  /\ IF is_running
     THEN cpc' = cpc
     ELSE /\ nthreads + Cardinality(Starting) < MaxThreads
          /\ cpc' = [cpc EXCEPT ![c] = "start_clear"]
  /\ stopped' = FALSE
  /\ UNCHANGED <<cfg, callers, controlVars, lock, statusVars, workerVars,
                 envVars, early, aloneVars>>

\* mutant: start() leaves the stop flag as it finds it
StartKeepsStop(c) ==
  /\ cpc[c] = "start_clear"
  /\ cpc' = [cpc EXCEPT ![c] = "start_new"]
  /\ UNCHANGED <<cfg, callers, controlVars, lock, statusVars, workerVars,
                 envVars, stopped, early, aloneVars>>

\* line 46: self._stop.clear()
StartClear(c) ==
  /\ cpc[c] = "start_clear"
  /\ stop' = FALSE
  /\ cpc' = [cpc EXCEPT ![c] = "start_new"]
  /\ UNCHANGED <<cfg, callers, thread, nthreads, lock, statusVars, workerVars,
                 envVars, stopped, early, aloneVars>>

\* line 47: self._thread = threading.Thread(target=self._run, ...)
StartNew(c) ==
  /\ cpc[c] = "start_new"
  /\ nthreads' = nthreads + 1
  /\ thread' = nthreads + 1
  /\ cpc' = [cpc EXCEPT ![c] = "start_go"]
  /\ wh' = [w \in Threads |-> IF pc[w] = "done" THEN NewHistory ELSE wh[w]]
  /\ early' = (early /\ nthreads = 0)
  /\ UNCHANGED <<cfg, callers, stop, lock, statusVars, pc, states, lg, ser, envVars,
                 stopped, aloneVars>>

\* line 48: self._thread.start(); a Thread that was already started raises
\* RuntimeError, which leaves start()
StartGo(c) ==
  /\ cpc[c] = "start_go"
  /\ pc' = IF pc[thread] = "unstarted"
           THEN [pc EXCEPT ![thread] = "run_lock"] ELSE pc
  /\ cpc' = [cpc EXCEPT ![c] = "idle"]
  /\ UNCHANGED <<cfg, callers, controlVars, lock, statusVars, states, lg, ser,
                 wh, envVars, stopped, early, aloneVars>>

\* -------------------------------------------------- caller threads: stop()
\* line 51: self._stop.set()
StopSet(c) ==
  /\ cpc[c] = "idle"
  /\ stop' = TRUE
  /\ cpc' = [cpc EXCEPT ![c] = "stop_join"]
  /\ early' = (early /\ nthreads = 0)
  /\ UNCHANGED <<cfg, callers, thread, nthreads, lock, statusVars, workerVars,
                 envVars, stopped, aloneVars>>

\* lines 52-53: if self._thread: self._thread.join(timeout=2.0)
\* join returns when the worker has terminated or when the timeout elapses,
\* whichever is first; joining a Thread that was never started raises.
StopJoin(c) ==
  /\ cpc[c] = "stop_join"
  /\ cpc' = [cpc EXCEPT ![c] =
               IF thread # 0 /\ pc[thread] = "unstarted" THEN "idle"
               ELSE "stop_lock"]
  /\ UNCHANGED <<cfg, callers, controlVars, lock, statusVars, workerVars,
                 envVars, stopped, early, aloneVars>>

\* line 54: with self._lock
StopLock(c) ==
  /\ cpc[c] = "stop_lock"
  /\ lock = 0
  /\ lock' = 0 - c
  /\ cpc' = [cpc EXCEPT ![c] = "stop_clear"]
  /\ UNCHANGED <<cfg, callers, controlVars, statusVars, workerVars, envVars,
                 stopped, early, aloneVars>>

\* mutant: stop() also resets the counters
StopClearResets(c) ==
  /\ cpc[c] = "stop_clear"
  /\ running' = FALSE
  /\ samples_written' = 0
  /\ bad_reads' = 0
  /\ lock' = 0
  /\ cpc' = [cpc EXCEPT ![c] = "idle"]
  /\ stopped' = TRUE
  /\ early' = (nthreads = 0)
  /\ UNCHANGED <<cfg, callers, controlVars, started_at, last_sample_at,
                 last_states, last_error, workerVars, envVars, aloneVars>>

\* line 55: self._running = False, and stop() returns
StopClear(c) ==
  /\ cpc[c] = "stop_clear"
  /\ running' = FALSE
  /\ lock' = 0
  /\ cpc' = [cpc EXCEPT ![c] = "idle"]
  /\ stopped' = TRUE
  /\ early' = (nthreads = 0)
  /\ UNCHANGED <<cfg, callers, controlVars, started_at, last_sample_at,
                 last_states, samples_written, bad_reads, last_error,
                 workerVars, envVars, aloneVars>>

\* -------------------------------------------- caller threads: get_status()
\* line 65: with self._lock
StatusLock(c) ==
  /\ cpc[c] = "idle"
  /\ lock = 0
  /\ lock' = 0 - c
  /\ cpc' = [cpc EXCEPT ![c] = "status_locked"]
  /\ UNCHANGED <<cfg, callers, controlVars, statusVars, workerVars, envVars,
                 stopped, early, aloneVars>>

\* lines 66-86: the dictionary get_status() builds
StatusDict ==
  [running |-> is_running,
   uptime_s |-> IF TruthyNum(started_at)
                THEN Some(clock - started_at[1]) ELSE None,
   last_sample_age_s |-> IF TruthyNum(last_sample_at)
                         THEN Some(clock - last_sample_at[1]) ELSE None,
   samples_written |-> samples_written,
   bad_reads |-> bad_reads,
   last_error |-> last_error,
   last |-> last_states,
   pins |-> [d4 |-> IF last_states # None THEN PinGet(last_states[1], 4) ELSE None,
             d5 |-> IF last_states # None THEN PinGet(last_states[1], 5) ELSE None,
             d6 |-> IF last_states # None THEN PinGet(last_states[1], 6) ELSE None,
             d7 |-> IF last_states # None THEN PinGet(last_states[1], 7) ELSE None]]

\* get_status() returns StatusDict and releases the lock
StatusReturn(c) ==
  /\ cpc[c] = "status_locked"
  /\ lock' = 0
  /\ cpc' = [cpc EXCEPT ![c] = "idle"]
  /\ UNCHANGED <<cfg, callers, controlVars, statusVars, workerVars, envVars,
                 stopped, early, aloneVars>>

\* ------------------------------------------------ worker thread: _run()
\* mutant: a failed open leaves a handle in self._ser
MonOpenOpLeaks(s, io) ==
  IF s THEN [ser |-> s, raised |-> FALSE]
  ELSE IF io = "raise" THEN [ser |-> TRUE, raised |-> TRUE]
  ELSE [ser |-> TRUE, raised |-> FALSE]

\* ArduinoPinMonitor.open(): serial.Serial(...) either yields a handle
\* or raises before self._ser is assigned
MonOpenOp(s, io) ==
  IF s THEN [ser |-> s, raised |-> FALSE]
  ELSE IF io = "raise" THEN [ser |-> FALSE, raised |-> TRUE]
  ELSE [ser |-> TRUE, raised |-> FALSE]

\* mutant: no finally clause, a raising close() keeps self._ser
MonCloseOpKeeps(s, io) ==
  IF s THEN [ser |-> (io = "raise"), raised |-> (io = "raise")]
  ELSE [ser |-> FALSE, raised |-> FALSE]

\* ArduinoPinMonitor.close(): self._ser = None in a finally clause,
\* whether or not self._ser.close() raises
MonCloseOp(s, io) ==
  IF s THEN [ser |-> FALSE, raised |-> (io = "raise")]
  ELSE [ser |-> FALSE, raised |-> FALSE]

\* what one readline() can do: raise, or deliver one of the device's lines
ReadOutcomes ==
  {[raises |-> TRUE, raw |-> <<>>]}
    \cup {[raises |-> FALSE, raw |-> l] : l \in DeviceLines}

\* a silent device: readline() only times out
SilentOutcomes == {[raises |-> FALSE, raw |-> LineTimeout]}

\* mutant: no guard, a closed monitor reports "no data"
MonReadOpUnguarded(s, io) ==
  IF ~s THEN [raised |-> FALSE, states |-> None]
  ELSE IF io.raises THEN [raised |-> TRUE, states |-> None]
  ELSE [raised |-> FALSE, states |-> DecodeRaw(io.raw)]

\* ArduinoPinMonitor.read_states()
MonReadOp(s, io) ==
  IF ~s THEN [raised |-> TRUE, states |-> None]
  ELSE IF io.raises THEN [raised |-> TRUE, states |-> None]
  ELSE [raised |-> FALSE, states |-> DecodeRaw(io.raw)]

LockSteps == {"run_lock", "bad_lock", "cache_lock", "cnt_lock", "err_lock",
              "fatal_lock", "fin_lock"}

Locked(p) ==
  CASE p = "run_lock" -> "run_init"
    [] p = "bad_lock" -> "bad_inc"
    [] p = "cache_lock" -> "cache_set"
    [] p = "cnt_lock" -> "cnt_inc"
    [] p = "err_lock" -> "err_set"
    [] p = "fatal_lock" -> "fatal_set"
    [] p = "fin_lock" -> "fin_clear"

\* positions of _run at an I/O call or a sleep
IOSteps == {"log_open", "mon_open", "mon_settle", "read", "write", "sleep",
            "mon_exit", "mon_exit_exc", "fin_close"}

\* every "with self._lock:" of _run and _set_error
WAcquire(w) ==
  /\ pc[w] \in LockSteps
  /\ lock = 0
  /\ lock' = w
  /\ pc' = [pc EXCEPT ![w] = Locked(pc[w])]
  /\ UNCHANGED <<cfg, callers, controlVars, statusVars, states, lg, ser, wh,
                 envVars, callerVars, aloneVars>>

\* mutant: a run starts its counters from zero
RunInitResetsCounters(w) ==
  /\ pc[w] = "run_init"
  /\ running' = TRUE
  /\ started_at' = Some(clock)
  /\ last_error' = None
  /\ samples_written' = 0
  /\ bad_reads' = 0
  /\ clock' = clock + 1
  /\ lock' = 0
  /\ pc' = [pc EXCEPT ![w] = "log_open"]
  /\ wh' = [wh EXCEPT ![w].sw0 = 0]
  /\ UNCHANGED <<cfg, callers, controlVars, last_sample_at, last_states,
                 states, lg, ser, device, tot, callerVars, aloneVars>>

\* lines 96-98
RunInit(w) ==
  /\ pc[w] = "run_init"
  /\ running' = TRUE
  /\ started_at' = Some(clock)
  /\ last_error' = None
  /\ clock' = clock + 1
  /\ UNCHANGED <<device, tot>>
  /\ lock' = 0
  /\ pc' = [pc EXCEPT ![w] = "log_open"]
  /\ wh' = [wh EXCEPT ![w].sw0 = samples_written]
  /\ UNCHANGED <<cfg, callers, controlVars, last_sample_at, last_states,
                 samples_written, bad_reads, states, lg, ser, callerVars,
                 aloneVars>>

\* line 101: logger.open()
LogOpen(w) ==
  /\ pc[w] = "log_open"
  /\ \E io \in IoOpen :
       LET r == LoggerOpen(lg[w], io) IN
       /\ lg' = [lg EXCEPT ![w] = r.lg]
       /\ pc' = [pc EXCEPT ![w] = IF r.raised THEN "fatal_lock" ELSE "mon_open"]
       /\ wh' = [wh EXCEPT ![w].cause = IF r.raised THEN "log_open" ELSE @]
  /\ UNCHANGED <<cfg, callers, controlVars, lock, statusVars, states, ser,
                 envVars, callerVars, aloneVars>>

\* line 102: ArduinoPinMonitor(...).__enter__() up to the assignment of _ser
MonOpen(w) ==
  /\ pc[w] = "mon_open"
  /\ \E io \in {"ok", "raise"} :
       LET r == MonOpenOp(ser[w], io) IN
       /\ ser' = [ser EXCEPT ![w] = r.ser]
       /\ pc' = [pc EXCEPT ![w] = IF r.raised THEN "fatal_lock" ELSE "mon_settle"]
       /\ wh' = [wh EXCEPT ![w].cause = IF r.raised THEN "conn_open" ELSE @]
  /\ UNCHANGED <<cfg, callers, controlVars, lock, statusVars, states, lg,
                 envVars, callerVars, aloneVars>>

\* serial_reader.py lines 60-66: startup sleep and best-effort buffer reset
MonSettle(w) ==
  /\ pc[w] = "mon_settle"
  /\ pc' = [pc EXCEPT ![w] = "loop"]
  /\ UNCHANGED <<cfg, callers, controlVars, lock, statusVars, states, lg, ser,
                 wh, envVars, callerVars, aloneVars>>

\* line 103: while not self._stop.is_set()
LoopTest(w) ==
  /\ pc[w] = "loop"
  /\ pc' = [pc EXCEPT ![w] = IF stop THEN "mon_exit" ELSE "read"]
  /\ wh' = [wh EXCEPT ![w].cause = IF stop THEN "stop" ELSE @]
  /\ UNCHANGED <<cfg, callers, controlVars, lock, statusVars, states, lg, ser,
                 envVars, callerVars, aloneVars>>

\* mutant: the port has no read timeout, readline() waits for the device
ReadBlocksWhenSilent(w) ==
  /\ pc[w] = "read"
  /\ device > 0
  /\ \E io \in ReadOutcomes :
       LET r == MonReadOp(ser[w], io) IN
       IF r.raised
       THEN /\ pc' = [pc EXCEPT ![w] = "mon_exit_exc"]
            /\ wh' = [wh EXCEPT ![w].cause = "read", ![w].lastWrite = "none"]
            /\ states' = states
            /\ UNCHANGED <<device, tot>>
       ELSE /\ states' = [states EXCEPT ![w] = r.states]
            /\ device' = device - 1
            /\ tot' = [tot EXCEPT !.reads = @ + 1]
            /\ pc' = [pc EXCEPT ![w] =
                        IF r.states = None THEN "bad_lock" ELSE "cache_lock"]
            /\ wh' = [wh EXCEPT ![w].reads = @ + 1,
                                ![w].lastWrite = "none",
                                ![w].decoded =
                                   IF r.states = None THEN @
                                   ELSE Append(@, r.states[1])]
  /\ UNCHANGED <<cfg, callers, controlVars, lock, statusVars, lg, ser, clock,
                 callerVars, aloneVars>>

\* line 104: states = mon.read_states(); readline() returns within the
\* port's timeout, with or without data
Read(w) ==
  /\ pc[w] = "read"
  /\ device > 0 \/ stop
  /\ \E io \in (IF device > 0 THEN ReadOutcomes ELSE SilentOutcomes) :
       LET r == MonReadOp(ser[w], io)
           it == [outcome |-> IF r.states = None THEN "bad" ELSE "sample",
                  raw |-> io.raw,
                  bad_reads |-> bad_reads,
                  samples_written |-> samples_written,
                  last_error |-> last_error,
                  last_states |-> last_states,
                  loglen |-> Len(lg[w].recs)]
       IN
       IF r.raised
       THEN /\ pc' = [pc EXCEPT ![w] = "mon_exit_exc"]
            /\ wh' = [wh EXCEPT ![w].cause = "read", ![w].lastWrite = "none"]
            /\ states' = states
            /\ UNCHANGED <<device, tot>>
       ELSE /\ states' = [states EXCEPT ![w] = r.states]
            /\ device' = IF device > 0 THEN device - 1 ELSE 0
            /\ tot' = [tot EXCEPT !.reads = @ + 1]
            /\ pc' = [pc EXCEPT ![w] =
                        IF r.states = None THEN "bad_lock" ELSE "cache_lock"]
            /\ wh' = [wh EXCEPT ![w].reads = @ + 1,
                                ![w].iter = it,
                                ![w].lastWrite = "none",
                                ![w].decoded =
                                   IF r.states = None THEN @
                                   ELSE Append(@, r.states[1])]
  /\ UNCHANGED <<cfg, callers, controlVars, lock, statusVars, lg, ser, clock,
                 callerVars, aloneVars>>

\* mutant: a read without data is dropped without being counted
BadIncLost(w) ==
  /\ pc[w] = "bad_inc"
  /\ lock' = 0
  /\ pc' = [pc EXCEPT ![w] = AfterIteration]
  /\ UNCHANGED <<cfg, callers, controlVars, statusVars, states, lg, ser, wh,
                 envVars, callerVars, aloneVars>>

\* mutant: a read without data is also reported as an error
BadIncSetsError(w) ==
  /\ pc[w] = "bad_inc"
  /\ bad_reads' = bad_reads + 1
  /\ last_error' = Some("bad read")
  /\ lock' = 0
  /\ pc' = [pc EXCEPT ![w] = AfterIteration]
  /\ UNCHANGED <<cfg, callers, controlVars, running, started_at,
                 last_sample_at, last_states, samples_written, states, lg,
                 ser, wh, envVars, callerVars, aloneVars>>

\* lines 106-110
BadInc(w) ==
  /\ pc[w] = "bad_inc"
  /\ bad_reads' = bad_reads + 1
  /\ lock' = 0
  /\ pc' = [pc EXCEPT ![w] = AfterIteration]
  /\ UNCHANGED <<cfg, callers, controlVars, running, started_at,
                 last_sample_at, last_states, samples_written, last_error,
                 states, lg, ser, wh, envVars, callerVars, aloneVars>>

\* mutant: the timestamp is stored but the sample is not cached
CacheSetForgetsSample(w) ==
  /\ pc[w] = "cache_set"
  /\ last_sample_at' = Some(clock)
  /\ clock' = clock + 1
  /\ lock' = 0
  /\ pc' = [pc EXCEPT ![w] = "write"]
  /\ UNCHANGED <<cfg, callers, controlVars, running, started_at, last_states,
                 samples_written, bad_reads, last_error, states, lg, ser, wh,
                 device, tot, callerVars, aloneVars>>

\* mutant: the lock taken to cache the sample is kept across write_sample
CacheSetKeepsLock(w) ==
  /\ pc[w] = "cache_set"
  /\ last_states' = states[w]
  /\ last_sample_at' = Some(clock)
  /\ clock' = clock + 1
  /\ pc' = [pc EXCEPT ![w] = "write"]
  /\ UNCHANGED <<cfg, callers, controlVars, lock, running, started_at,
                 samples_written, bad_reads, last_error, states, lg, ser, wh,
                 device, tot, callerVars, aloneVars>>

\* lines 112-114
CacheSet(w) ==
  /\ pc[w] = "cache_set"
  /\ last_states' = states[w]
  /\ last_sample_at' = Some(clock)
  /\ clock' = clock + 1
  /\ UNCHANGED <<device, tot>>
  /\ lock' = 0
  /\ pc' = [pc EXCEPT ![w] = "write"]
  /\ UNCHANGED <<cfg, callers, controlVars, running, started_at,
                 samples_written, bad_reads, last_error, states, lg, ser, wh,
                 callerVars, aloneVars>>

\* line 117: logger.write_sample(states)
Write(w) ==
  /\ pc[w] = "write"
  /\ \E io \in IoWrite :
       LET r == LoggerWrite(lg[w], cfg.flush_every,
                            MakeRecord(states[w][1], clock), io)
       IN
       /\ lg' = [lg EXCEPT ![w] = r.lg]
       /\ pc' = [pc EXCEPT ![w] = IF r.raised THEN "err_lock" ELSE "cnt_lock"]
       /\ wh' = [wh EXCEPT ![w].attempts = @ + 1,
                           ![w].fails = IF r.raised THEN @ + 1 ELSE @,
                           ![w].lastWrite = IF r.raised THEN "failed" ELSE "ok",
                           ![w].logIdx =
                              IF Len(r.lg.recs) > Len(lg[w].recs)
                              THEN Append(@, Len(wh[w].decoded)) ELSE @]
       /\ tot' = [tot EXCEPT !.fails = IF r.raised THEN @ + 1 ELSE @]
  /\ UNCHANGED <<cfg, callers, controlVars, lock, statusVars, states, ser,
                 clock, device, callerVars, aloneVars>>

\* lines 118-119
CntInc(w) ==
  /\ pc[w] = "cnt_inc"
  /\ samples_written' = samples_written + 1
  /\ lock' = 0
  /\ pc' = [pc EXCEPT ![w] = AfterIteration]
  /\ UNCHANGED <<cfg, callers, controlVars, running, started_at,
                 last_sample_at, last_states, bad_reads, last_error, states,
                 lg, ser, wh, envVars, callerVars, aloneVars>>

\* mutant: the write error is recorded and then leaves the loop
ErrSetFatal(w) ==
  /\ pc[w] = "err_set"
  /\ last_error' = Some(JsonWriteError)
  /\ lock' = 0
  /\ pc' = [pc EXCEPT ![w] = "mon_exit_exc"]
  /\ UNCHANGED <<cfg, callers, controlVars, running, started_at,
                 last_sample_at, last_states, samples_written, bad_reads,
                 states, lg, ser, wh, envVars, callerVars, aloneVars>>

\* lines 120-126: except Exception as e: self._set_error("JSON write error")
ErrSet(w) ==
  /\ pc[w] = "err_set"
  /\ last_error' = Some(JsonWriteError)
  /\ lock' = 0
  /\ pc' = [pc EXCEPT ![w] = AfterIteration]
  /\ UNCHANGED <<cfg, callers, controlVars, running, started_at,
                 last_sample_at, last_states, samples_written, bad_reads,
                 states, lg, ser, wh, envVars, callerVars, aloneVars>>

\* lines 108-109 and 125-126: time.sleep(self.cfg.poll_sleep_s)
Sleep(w) ==
  /\ pc[w] = "sleep"
  /\ pc' = [pc EXCEPT ![w] = "loop"]
  /\ UNCHANGED <<cfg, callers, controlVars, lock, statusVars, states, lg, ser,
                 wh, envVars, callerVars, aloneVars>>

\* leaving "with ArduinoPinMonitor(...) as mon": mon.__exit__() -> close()
MonExit(w) ==
  /\ pc[w] \in {"mon_exit", "mon_exit_exc"}
  /\ \E io \in {"ok", "raise"} :
       LET r == MonCloseOp(ser[w], io) IN
       /\ ser' = [ser EXCEPT ![w] = r.ser]
       /\ pc' = [pc EXCEPT ![w] =
                   IF pc[w] = "mon_exit" /\ ~r.raised
                   THEN "fin_close" ELSE "fatal_lock"]
       /\ wh' = [wh EXCEPT ![w].cause =
                   IF pc[w] = "mon_exit" /\ r.raised THEN "mon_close" ELSE @]
  /\ UNCHANGED <<cfg, callers, controlVars, lock, statusVars, states, lg,
                 envVars, callerVars, aloneVars>>

\* lines 128-131: except Exception as e: self._set_error(f"fatal: {e}")
FatalSet(w) ==
  /\ pc[w] = "fatal_set"
  /\ last_error' = Some(FatalError)
  /\ lock' = 0
  /\ pc' = [pc EXCEPT ![w] = "fin_close"]
  /\ UNCHANGED <<cfg, callers, controlVars, running, started_at,
                 last_sample_at, last_states, samples_written, bad_reads,
                 states, lg, ser, wh, envVars, callerVars, aloneVars>>

\* lines 133-136: finally: logger.close(), its exceptions swallowed
FinClose(w) ==
  /\ pc[w] = "fin_close"
  /\ \E io \in IoClose :
       lg' = [lg EXCEPT ![w] = LoggerClose(lg[w], io).lg]
  /\ pc' = [pc EXCEPT ![w] = "fin_lock"]
  /\ UNCHANGED <<cfg, callers, controlVars, lock, statusVars, states, ser, wh,
                 envVars, callerVars, aloneVars>>

\* lines 137-138: self._running = False, and the thread terminates.
\* _run's locals go out of scope: of the logger only the state of its
\* handle is kept, of the history only the cause of the exit.
FinClear(w) ==
  /\ pc[w] = "fin_clear"
  /\ running' = FALSE
  /\ lock' = 0
  /\ pc' = [pc EXCEPT ![w] = "done"]
  /\ states' = [states EXCEPT ![w] = None]
  /\ lg' = [lg EXCEPT ![w] = [LoggerNew EXCEPT !.fh = lg[w].fh]]
  /\ wh' = [wh EXCEPT ![w] = [NewHistory EXCEPT !.cause = wh[w].cause]]
  /\ UNCHANGED <<cfg, callers, controlVars, started_at, last_sample_at,
                 last_states, samples_written, bad_reads, last_error, ser,
                 envVars, callerVars, aloneVars>>

\* --------------------------------------------------------- specifications
\* no line is handed to the codec on its own
InitCodecIdle == cline = <<>> /\ cres = NoResult

Init ==
  /\ cfg \in Configs
  /\ callers = {1}
  /\ device = MaxReads
  /\ InitService
  /\ InitCodecIdle

InitConc ==
  /\ cfg \in Configs
  /\ callers = CallerIds
  /\ device = MaxConcReads
  /\ InitService
  /\ InitCodecIdle

Next ==
  \/ \E c \in callers : StartCheck(c)
  \/ \E c \in callers : StartClear(c)
  \/ \E c \in callers : StartNew(c)
  \/ \E c \in callers : StartGo(c)
  \/ \E c \in callers : StopSet(c)
  \/ \E c \in callers : StopJoin(c)
  \/ \E c \in callers : StopLock(c)
  \/ \E c \in callers : StopClear(c)
  \/ \E c \in callers : StatusLock(c)
  \/ \E c \in callers : StatusReturn(c)
  \/ \E w \in Threads : WAcquire(w)
  \/ \E w \in Threads : RunInit(w)
  \/ \E w \in Threads : LogOpen(w)
  \/ \E w \in Threads : MonOpen(w)
  \/ \E w \in Threads : MonSettle(w)
  \/ \E w \in Threads : LoopTest(w)
  \/ \E w \in Threads : Read(w)
  \/ \E w \in Threads : BadInc(w)
  \/ \E w \in Threads : CacheSet(w)
  \/ \E w \in Threads : Write(w)
  \/ \E w \in Threads : CntInc(w)
  \/ \E w \in Threads : ErrSet(w)
  \/ \E w \in Threads : Sleep(w)
  \/ \E w \in Threads : MonExit(w)
  \/ \E w \in Threads : FatalSet(w)
  \/ \E w \in Threads : FinClose(w)
  \/ \E w \in Threads : FinClear(w)

\* one caller thread (main.py: start(), then the menu) and the worker
Spec == Init /\ [][Next]_vars

\* two caller threads using the same service object, both calling start()
NextConc ==
  \/ \E c \in callers : StartCheck(c)
  \/ \E c \in callers : StartClear(c)
  \/ \E c \in callers : StartNew(c)
  \/ \E c \in callers : StartGo(c)
  \/ \E w \in Threads : WAcquire(w)
  \/ \E w \in Threads : RunInit(w)
  \/ \E w \in Threads : LogOpen(w)
  \/ \E w \in Threads : MonOpen(w)
  \/ \E w \in Threads : MonSettle(w)
  \/ \E w \in Threads : LoopTest(w)
  \/ \E w \in Threads : Read(w)
  \/ \E w \in Threads : BadInc(w)
  \/ \E w \in Threads : CacheSet(w)
  \/ \E w \in Threads : Write(w)
  \/ \E w \in Threads : CntInc(w)
  \/ \E w \in Threads : ErrSet(w)
  \/ \E w \in Threads : Sleep(w)
  \/ \E w \in Threads : MonExit(w)
  \/ \E w \in Threads : FatalSet(w)
  \/ \E w \in Threads : FinClose(w)
  \/ \E w \in Threads : FinClear(w)

SpecConc == InitConc /\ [][NextConc]_vars

\* ------------------------------------------- the logger used on its own
svcVars == <<callers, cpc, stop, thread, nthreads, lock, statusVars, pc,
             states, lg, ser, clock, device, wh, tot, stopped, early>>

\* the samples the device lines decode to
Samples == {DecodeRaw(l)[1] : l \in {x \in DeviceLines : DecodeRaw(x) # None}}

LogConfigs == {[flush_every |-> n, poll_sleep_s |-> 0] : n \in 1..MaxFlushEvery}

InitLog ==
  /\ cfg \in LogConfigs
  /\ callers = {}
  /\ device = 0
  /\ InitService
  /\ InitCodecIdle

\* logger.open()
SOpen ==
  /\ sops < MaxLogOps
  /\ \E io \in IoOpen :
       LET r == LoggerOpen(slg, io) IN
       /\ slg' = r.lg
       /\ sret' = [op |-> "log_open", wasOpen |-> slg.fh, raised |-> r.raised,
                   appended |-> Len(r.lg.recs) - Len(slg.recs),
                   same |-> (r.lg = slg)]
  /\ sops' = sops + 1
  /\ UNCHANGED <<cfg, svcVars, sser, codecVars>>

\* logger.write_sample(states)
SWrite ==
  /\ sops < MaxLogOps
  /\ \E m \in Samples, io \in IoWrite :
       LET r == LoggerWrite(slg, cfg.flush_every, MakeRecord(m, sops), io) IN
       /\ slg' = r.lg
       /\ sret' = [op |-> "write_sample", wasOpen |-> slg.fh,
                   raised |-> r.raised,
                   appended |-> Len(r.lg.recs) - Len(slg.recs),
                   same |-> (r.lg = slg)]
  /\ sops' = sops + 1
  /\ UNCHANGED <<cfg, svcVars, sser, codecVars>>

\* logger.close()
SClose ==
  /\ sops < MaxLogOps
  /\ \E io \in IoClose :
       LET r == LoggerClose(slg, io) IN
       /\ slg' = r.lg
       /\ sret' = [op |-> "log_close", wasOpen |-> slg.fh, raised |-> r.raised,
                   appended |-> Len(r.lg.recs) - Len(slg.recs),
                   same |-> (r.lg = slg)]
  /\ sops' = sops + 1
  /\ UNCHANGED <<cfg, svcVars, sser, codecVars>>

\* mon.open()
SMonOpen ==
  /\ sops < MaxLogOps
  /\ \E io \in {"ok", "raise"} :
       LET r == MonOpenOp(sser, io) IN
       /\ sser' = r.ser
       /\ sret' = [op |-> "mon_open", wasOpen |-> sser, raised |-> r.raised,
                   appended |-> 0, same |-> (r.ser = sser)]
  /\ sops' = sops + 1
  /\ UNCHANGED <<cfg, svcVars, slg, codecVars>>

\* mon.read_states()
SMonRead ==
  /\ sops < MaxLogOps
  /\ \E io \in ReadOutcomes :
       LET r == MonReadOp(sser, io) IN
       sret' = [op |-> "read_states", wasOpen |-> sser, raised |-> r.raised,
                appended |-> 0, same |-> TRUE]
  /\ sops' = sops + 1
  /\ UNCHANGED <<cfg, svcVars, slg, sser, codecVars>>

\* mon.close()
SMonClose ==
  /\ sops < MaxLogOps
  /\ \E io \in {"ok", "raise"} :
       LET r == MonCloseOp(sser, io) IN
       /\ sser' = r.ser
       /\ sret' = [op |-> "mon_close", wasOpen |-> sser, raised |-> r.raised,
                   appended |-> 0, same |-> (r.ser = sser)]
  /\ sops' = sops + 1
  /\ UNCHANGED <<cfg, svcVars, slg, codecVars>>

NextLog ==
  \/ SOpen \/ SWrite \/ SClose
  \/ SMonOpen \/ SMonRead \/ SMonClose

\* any sequence of open / write_sample / close calls on one logger and of
\* open / read_states / close calls on one monitor
SpecLog == InitLog /\ [][NextLog]_vars

\* ------------------------------------------------- the codec used on its own
\* tokens a line may hold between its commas: pin numbers, binary and other
\* values, padded and signed integers, a non-integer, and blanks
CodecTokens ==
  {<<"4">>, <<"5">>, <<"0">>, <<" ", "1">>, <<"2">>, <<"-", "1">>, <<"x">>,
   <<" ">>}

RECURSIVE SeqsUpTo(_, _)
SeqsUpTo(S, n) ==
  IF n = 0 THEN {<<>>}
  ELSE LET shorter == SeqsUpTo(S, n - 1)
       IN shorter \cup {Append(q, t) : q \in shorter, t \in S}

\* str.split(",") yields at least one token
CodecLines == SeqsUpTo(CodecTokens, MaxTokens) \ {<<>>}

InitCodec ==
  /\ cfg = [flush_every |-> 1, poll_sleep_s |-> 0]
  /\ callers = {}
  /\ device = 0
  /\ InitService
  /\ cline \in CodecLines
  /\ cres = NoResult

\* parse_line(line); a raised ValueError is the result Malformed
CodecParse ==
  /\ cres.parsed = None
  /\ cres' = [cres EXCEPT !.parsed = Some(parse_line(cline))]
  /\ UNCHANGED <<cfg, svcVars, loneVars, cline>>

\* read_states() on an open port whose readline() delivered the line
CodecRead ==
  /\ cres.read = None
  /\ cres' = [cres EXCEPT !.read = Some(DecodeRaw(cline))]
  /\ UNCHANGED <<cfg, svcVars, loneVars, cline>>

\* write_sample(states) with the sample read_states() returned
CodecWrite ==
  /\ cres.read # None
  /\ cres.read[1] # None
  /\ cres.rec = None
  /\ cres' = [cres EXCEPT !.rec = Some(MakeRecord(cres.read[1][1], clock))]
  /\ UNCHANGED <<cfg, svcVars, loneVars, cline>>

NextCodec == CodecParse \/ CodecRead \/ CodecWrite

\* every line over the token alphabet, decoded and serialised
SpecCodec == InitCodec /\ [][NextCodec]_vars

\* ------------------------------------------------------------------ claims

\* C1: start() called twice concurrently starts exactly one worker: in no
\* reachable state are two acquisition workers alive.
C1_OneWorker == Cardinality({w \in Threads : Alive(w)}) <= 1

\* C2: after stop() has returned and until the next start(), every status
\* snapshot reports running = false, also when the join timed out and the
\* worker is still alive.
C2_StoppedReportsNotRunning ==
  \A c \in callers :
    (stopped /\ cpc[c] = "status_locked") => ~StatusDict.running

\* C3: in every status snapshot, samples_written >= 1 implies that the cached
\* last sample and the last-sample age are present in the same snapshot.
C3_CountImpliesLastSample ==
  \A c \in callers :
    (cpc[c] = "status_locked" /\ StatusDict.samples_written >= 1)
      => (StatusDict.last # None /\ StatusDict.last_sample_age_s # None)

\* a snapshot taken while the worker waits to count its second sample
C3_Witness ==
  /\ cpc[1] = "status_locked"
  /\ StatusDict.samples_written >= 1
  /\ \E w \in Threads : pc[w] = "cnt_lock"

\* C4: within one run the records appended to the log are, in order, the
\* decoded samples whose append did not raise before the write: each record
\* carries the pins of the sample it was made from, the records follow the
\* order of decoding with non-decreasing timestamps, a sample is appended
\* in the iteration that read it (every decoded sample has been handed to
\* write_sample before the next read), and the log equals the decoded
\* sequence when no append failed.
C4_LogInDecodeOrder ==
  \A w \in Threads :
    LET d == wh[w].decoded
        ix == wh[w].logIdx
        r == lg[w].recs
    IN Alive(w) =>
       /\ Len(ix) = Len(r)
       /\ \A i \in 1..Len(r) :
            /\ ix[i] \in 1..Len(d)
            /\ r[i] = MakeRecord(d[ix[i]], r[i].ts_utc)
       /\ \A i, j \in 1..Len(r) :
            i < j => (ix[i] < ix[j] /\ r[i].ts_utc <= r[j].ts_utc)
       /\ wh[w].attempts <= Len(d)
       /\ Len(d) <= wh[w].attempts + 1
       /\ pc[w] \in {"loop", "read", "sleep"} => wh[w].attempts = Len(d)
       /\ (wh[w].fails = 0 /\ wh[w].attempts = Len(d)) => Len(r) = Len(d)

\* two different samples decoded and both appended
C4_Witness ==
  \E w \in Threads :
    /\ Len(lg[w].recs) = 2
    /\ Len(wh[w].decoded) = 2
    /\ wh[w].decoded[1] # wh[w].decoded[2]

\* a worker that holds a read result not yet reflected anywhere
Uncounted(w) ==
  pc[w] \in {"bad_lock", "bad_inc", "cache_lock", "cache_set", "write",
             "cnt_lock", "cnt_inc"}

Pending == Cardinality({w \in Threads : Uncounted(w)})

C6_FlushCadence ==
  /\ slg.forcedGap = 0 \/ slg.forcedGap >= cfg.flush_every
  /\ (slg.fh /\ ~slg.flushRaised) => slg.unflushed < cfg.flush_every

\* C7: when the serial connection cannot be opened the worker performs no
\* read and leaves the loop, records a non-empty last error, closes the log
\* it had opened (closing again changes nothing) and retains no serial
\* handle; once it has terminated, status shows running = false with that
\* error.
C7_ConnOpenFailure ==
  \A w \in Threads :
    wh[w].cause = "conn_open" =>
      /\ wh[w].reads = 0
      /\ ~ser[w]
      /\ pc[w] \in {"fatal_lock", "fatal_set", "fin_close", "fin_lock",
                    "fin_clear", "done"}
      /\ pc[w] \in {"fin_close", "fin_lock", "fin_clear", "done"}
           => last_error = Some(FatalError)
      /\ pc[w] \in {"fin_lock", "fin_clear", "done"}
           => (~lg[w].fh /\ \A io \in IoClose : LoggerClose(lg[w], io).lg = lg[w])
      /\ pc[w] = "done"
           => (~StatusDict.running /\ StatusDict.last_error # None
               /\ StatusDict.last_error[1] # "")

\* status is read after a worker died on a connection failure
C7_Witness ==
  /\ cpc[1] = "status_locked"
  /\ \E w \in Threads : pc[w] = "done" /\ wh[w].cause = "conn_open"

\* C8: when write_sample raises, the message is recorded as last error,
\* samples_written is not incremented, the sample is handed to write_sample
\* once only, and the worker stays in the loop and goes on to the next read
\* unless stop was requested.
C8_AppendFailureNonFatal ==
  \A w \in Threads :
    wh[w].lastWrite = "failed" =>
      /\ Alive(w)
      /\ pc[w] \in {"err_lock", "err_set", "sleep", "loop", "read"}
           \/ wh[w].cause \in {"stop", "mon_close"}
      /\ samples_written = wh[w].iter.samples_written
      /\ wh[w].attempts = Len(wh[w].decoded)
      /\ pc[w] \in {"sleep", "loop", "read", "mon_exit"}
           => last_error = Some(JsonWriteError)

\* after a failed append the worker is about to read again
C8_Witness ==
  \E w \in Threads :
    /\ wh[w].lastWrite = "failed"
    /\ pc[w] = "read"
    /\ ~stop
    /\ device > 0

\* C9: a read attempt that yields no data (timeout, blank line, or a line
\* the codec rejects) increments bad_reads by exactly one, appends nothing
\* and leaves last_error, samples_written and the cached sample unchanged.
C9_BadReadOnlyCounts ==
  \A w \in Threads :
    (wh[w].iter.outcome = "bad"
       /\ pc[w] \in {"bad_lock", "bad_inc", "sleep", "loop", "read", "mon_exit"})
    =>
      /\ wh[w].iter.raw \in {LineTimeout, LineBlank, LineOdd, LineNonInt}
      /\ bad_reads = wh[w].iter.bad_reads
                       + (IF pc[w] \in {"bad_lock", "bad_inc"} THEN 0 ELSE 1)
      /\ Len(lg[w].recs) = wh[w].iter.loglen
      /\ last_error = wh[w].iter.last_error
      /\ samples_written = wh[w].iter.samples_written
      /\ last_states = wh[w].iter.last_states
      /\ wh[w].lastWrite = "none"

\* an odd-length line was counted after a sample had been cached and an
\* append had failed
C9_Witness ==
  \E w \in Threads :
    /\ wh[w].iter.raw = LineOdd
    /\ pc[w] = "loop"
    /\ last_states # None
    /\ last_error # None

\* C10: a worker that has terminated, for whatever reason it left the loop,
\* has closed its Sample Source and its Append Log (both are already closed
\* when it takes the lock to clear the flag), and with no worker alive the
\* running flag is clear.
C10_ReleasedOnExit ==
  /\ \A w \in Threads :
       pc[w] \in {"fin_lock", "fin_clear", "done"} => (~ser[w] /\ ~lg[w].fh)
  /\ (\A w \in Threads : ~Alive(w)) => ~running

\* a worker whose read raised has terminated
C10_Witness ==
  \E w \in Threads : pc[w] = "done" /\ wh[w].cause = "read"

\* ------------------------------------------------ scheduling assumptions
\* what one worker thread does on its own, lock acquisitions apart
WorkerStep(w) ==
  \/ RunInit(w) \/ LogOpen(w) \/ MonOpen(w) \/ MonSettle(w) \/ LoopTest(w)
  \/ Read(w) \/ BadInc(w) \/ CacheSet(w) \/ Write(w) \/ CntInc(w)
  \/ ErrSet(w) \/ Sleep(w) \/ MonExit(w) \/ FatalSet(w) \/ FinClose(w)
  \/ FinClear(w)

\* the steps by which a call of the caller thread, once begun, comes back
CallerStep(c) ==
  \/ StartClear(c) \/ StartNew(c) \/ StartGo(c)
  \/ StopJoin(c) \/ StopClear(c) \/ StatusReturn(c)

\* Threads are scheduled: a thread that can take a step eventually takes one
\* (readline() returns within its timeout, time.sleep() ends, join() returns
\* within its timeout), and a thread waiting for self._lock eventually gets
\* it.  Calling start(), stop() or get_status() is never forced.
Fairness ==
  /\ \A w \in Threads : WF_vars(WorkerStep(w)) /\ SF_vars(WAcquire(w))
  /\ WF_vars(CallerStep(1)) /\ SF_vars(StopLock(1))

SpecFair == Init /\ [][Next]_vars /\ Fairness

\* C11: once stop() has been requested while a worker is alive, that worker
\* eventually terminates (it sees the flag at the top of an iteration and
\* leaves through the finally clause), and a stop() call that has begun
\* eventually returns.
C11_StopTerminates ==
  /\ \A w \in Threads : (stop /\ Alive(w)) ~> ~Alive(w)
  /\ (cpc[1] \in {"stop_join", "stop_lock", "stop_clear"}) ~> (cpc[1] = "idle")

\* stop() has returned and the worker has left the loop because of the flag
C11_Witness ==
  /\ stopped
  /\ \E w \in Threads : pc[w] = "done" /\ wh[w].cause = "stop"

\* a step taken on a caller thread: every step of a worker moves that worker,
\* and the only caller step that moves a worker is the end of start()
CallerActs == cpc' # cpc \/ pc' = pc

\* C12 (as stated): no operation executed on a caller thread changes any
\* field behind the status snapshot.
C12_OnlyWorkerWritesOriginal == [][CallerActs => UNCHANGED statusVars]_vars

\* C12 (amended): on a caller thread started-at, last-sample time and cache,
\* samples_written, bad_reads and last_error are never written, and the
\* running flag is written only by the last step of stop(), which sets it
\* to false.
C12_OnlyStopClearsRunning ==
  [][CallerActs =>
       /\ UNCHANGED <<started_at, last_sample_at, last_states,
                      samples_written, bad_reads, last_error>>
       /\ running' # running =>
            /\ ~running'
            /\ \E c \in callers : cpc[c] = "stop_clear" /\ cpc'[c] = "idle"]_vars

\* stop() has returned after a timed-out join: it cleared the flag that the
\* worker, still in its loop with samples counted, had set
C12_Witness ==
  /\ stopped
  /\ ~running
  /\ samples_written >= 1
  /\ \E w \in Threads : pc[w] \in {"loop", "read", "write", "sleep"}

\* C13: stop() on a service that was never started starts and joins no
\* worker and leaves every status field at its initial value; the start()
\* that follows creates a Thread with the stop flag clear, and as long as
\* stop() is not called again that worker never sees the flag set: it does
\* not leave the loop because of it.
C13_EarlyStopIsNoOp ==
  /\ nthreads = 0 =>
       /\ thread = 0
       /\ \A w \in Threads : pc[w] = "unstarted"
       /\ ~running /\ samples_written = 0 /\ bad_reads = 0
       /\ started_at = None /\ last_sample_at = None
       /\ last_states = None /\ last_error = None
  /\ (early /\ (nthreads >= 1 \/ cpc[1] = "start_new")) =>
       /\ ~stop
       /\ \A w \in Threads : wh[w].cause # "stop"
       /\ (nthreads >= 1 /\ cpc[1] # "start_go") => pc[1] # "unstarted"

\* after stop() and then start(), the worker has read from the device and
\* is about to read again
C13_Witness ==
  /\ early
  /\ pc[1] = "read"
  /\ wh[1].reads >= 1
  /\ device > 0

\* C14: every sample read_states() returns maps its pins to 0 or 1 only, and
\* every record write_sample serialises from it has d4, d5, d6 and d7 each
\* equal to 0, 1 or null.
C14_PinsBinary ==
  LET BinaryOrNull == {None, Some(0), Some(1)} IN
  /\ (cres.read # None /\ cres.read[1] # None) =>
       \A p \in DOMAIN cres.read[1][1] : cres.read[1][1][p] \in {0, 1}
  /\ cres.rec # None =>
       /\ cres.rec[1].d4 \in BinaryOrNull
       /\ cres.rec[1].d5 \in BinaryOrNull
       /\ cres.rec[1].d6 \in BinaryOrNull
       /\ cres.rec[1].d7 \in BinaryOrNull

\* the trimmed, non-empty tokens of a line
TrimmedTokens(line) ==
  SelectSeq([i \in 1..Len(line) |-> Strip(line[i])], LAMBDA t : t # <<>>)

\* for a sequence of integer tokens pin1, val1, pin2, val2, ...: the mapping
\* that gives each pin the value of its last occurrence
LastOccurrence(parts) ==
  LET n == Len(parts) \div 2
      at(p) == {k \in 1..n : ToInt(parts[2 * k - 1]) = p}
      last(p) == CHOOSE k \in at(p) : \A j \in at(p) : j <= k
  IN [p \in {ToInt(parts[2 * k - 1]) : k \in 1..n} |->
        ToInt(parts[2 * last(p)])]

\* C15: for every line over the token alphabet, parse_line returns the
\* last-occurrence mapping, and nothing else, when the trimmed non-empty
\* tokens are even in number and all integers; otherwise it raises and
\* returns no mapping.
C15_CodecCorrect ==
  cres.parsed # None =>
    LET t == TrimmedTokens(cline)
        r == cres.parsed[1]
    IN IF Len(t) % 2 = 0 /\ \A i \in 1..Len(t) : IsInt(t[i])
       THEN r.ok
            /\ DOMAIN r.map = DOMAIN LastOccurrence(t)
            /\ \A p \in DOMAIN r.map : r.map[p] = LastOccurrence(t)[p]
       ELSE r = Malformed

\* a line that names the same pin twice with different values was decoded
C15_Witness ==
  /\ cres.parsed # None
  /\ cres.parsed[1].ok
  /\ LET t == TrimmedTokens(cline) IN
       /\ Len(t) = 4
       /\ ToInt(t[1]) = ToInt(t[3])
       /\ ToInt(t[2]) # ToInt(t[4])

\* C16: on a closed monitor read_states() raises, on a closed logger
\* write_sample() raises and appends nothing, neither changes the object;
\* open() on an open object and close() on a closed one do nothing and do
\* not raise; an object is closed before its first open() and after every
\* close(), also one that raised.
C16_LifecycleGuards ==
  /\ (sret.op \in {"read_states", "write_sample"} /\ ~sret.wasOpen) =>
       (sret.raised /\ sret.appended = 0 /\ sret.same)
  /\ (sret.op \in {"log_open", "mon_open"} /\ sret.wasOpen) =>
       (~sret.raised /\ sret.appended = 0 /\ sret.same)
  /\ (sret.op \in {"log_close", "mon_close"} /\ ~sret.wasOpen) =>
       (~sret.raised /\ sret.appended = 0 /\ sret.same)
  /\ sret.op = "log_close" => ~slg.fh
  /\ sret.op = "mon_close" => ~sser
  /\ sops = 0 => (~slg.fh /\ ~sser)

\* write_sample() was refused on a logger that had been open, had taken a
\* record and was closed again, while the monitor is open
C16_Witness ==
  /\ sret.op = "write_sample"
  /\ ~sret.wasOpen
  /\ Len(slg.recs) >= 1
  /\ sser

\* C17: a worker at an I/O call or a sleep does not hold the status lock, and
\* stop() does not hold it while it joins; whoever holds the lock is at a
\* plain assignment (or the snapshot copy) whose next step releases it and
\* can be taken at once, whatever the other threads are doing.
C17_LockNotHeldAcrossIO ==
  /\ \A w \in Threads :
       /\ pc[w] \in IOSteps => lock # w
       /\ lock = w =>
            /\ pc[w] \in {Locked(p) : p \in LockSteps}
            /\ ENABLED WorkerStep(w)
  /\ \A c \in callers :
       /\ cpc[c] = "stop_join" => lock # 0 - c
       /\ lock = 0 - c =>
            /\ cpc[c] \in {"stop_clear", "status_locked"}
            /\ ENABLED (StopClear(c) \/ StatusReturn(c))

\* get_status() holds the lock while the worker waits in a read on a device
\* that has fallen silent
C17_Witness ==
  /\ cpc[1] = "status_locked"
  /\ lock = 0 - 1
  /\ ~stop
  /\ device = 0
  /\ \E w \in Threads : pc[w] = "read"

\* C18: during a run, outside the window between a successful append and its
\* count, the samples_written gained since the run began equals the number
\* of records this run has appended to the log.
C18_CountEqualsRecords ==
  \A w \in Threads :
    (Alive(w) /\ pc[w] \notin {"run_lock", "run_init", "cnt_lock", "cnt_inc"})
      => samples_written - wh[w].sw0 = Len(lg[w].recs)

\* a step in which a call of start() returns: the Thread has been started,
\* or the liveness test of line 44 sent the caller back
StartReturns ==
  \/ \E c \in callers : cpc[c] = "start_go" /\ cpc'[c] = "idle"
  \/ stopped /\ ~stopped' /\ cpc' = cpc

\* C19: whenever start() returns there is a live worker and the stop flag is
\* clear, also when the preceding stop() gave up its join while the old
\* worker was still alive.
C19_StartLeavesLiveWorker ==
  [][StartReturns => (is_running' /\ ~stop')]_vars

\* a step in which worker w begins a run (lines 95-98)
RunBegins(w) == pc[w] = "run_init" /\ pc'[w] = "log_open"

\* C20: samples_written and bad_reads never decrease, a cached last sample
\* is never dropped, and the step that begins a run clears last_error and
\* sets the uptime origin to the current time while it leaves both
\* counters, the cached sample and its timestamp as the previous run left
\* them.
C20_CountersSurviveRestart ==
  [][/\ samples_written' >= samples_written
     /\ bad_reads' >= bad_reads
     /\ last_states # None => last_states' # None
     /\ \A w \in Threads :
          RunBegins(w) =>
            /\ last_error' = None
            /\ started_at' = Some(clock)
            /\ samples_written' = samples_written
            /\ bad_reads' = bad_reads
            /\ last_states' = last_states
            /\ last_sample_at' = last_sample_at]_vars

\* the second worker has begun its run: the counter and the cached sample
\* of the first run are still there, no error is shown and the uptime
\* origin is later than the first run's
C20_Witness ==
  /\ pc[2] = "log_open"
  /\ wh[2].sw0 >= 1
  /\ samples_written = wh[2].sw0
  /\ last_states # None
  /\ last_error = None
  /\ started_at # None /\ started_at[1] > 1

====
